---- MODULE Spec2Model ----
(***************************************************************************)
(* Closed-loop comparison harness of examples/example_qp/run_system.py:    *)
(* two DoubleIntegrator plants driven in lockstep, one filtered by the     *)
(* CBF-QP solve (opt_solve), one by the predictor network (nn_infer).      *)
(*                                                                         *)
(* Reals are fixed-point integers, Scale units per 1.0.  Tensors are heap  *)
(* cells addressed by an id, because the program passes them by reference  *)
(* and updates them in place (Tensor += ...).                              *)
(***************************************************************************)
EXTENDS Integers, Sequences, FiniteSets, TLC

VARIABLES
  tensor,       \* heap: tensor id -> value of the (1,1,1) tensor
  plant,        \* the DoubleIntegrator objects: fields _x, _v (tensor ids), _dt, _t
  pc,           \* position of main
  i,            \* loop index of main
  x, v,         \* locals of main: tensors returned by system.dynamics
  xn, vn,       \* locals of main: tensors returned by system_n.dynamics
  u_nom,        \* local of main
  u_filtered,   \* local of main: last result of opt_solve
  un_filtered,  \* local of main: last result of nn_infer
  collections,  \* ax.collections: the scatter artists currently on the axes
  printed,      \* the printInBoldRed calls made so far, as <<iteration, text>>
  rec,          \* history: per plant, the (position, velocity) pairs given to ax.scatter
  ctlLog,       \* history: per plant, the controls passed to dynamics
  outLog,       \* history: per plant, the results its filter returned
  ctxLog,       \* history: per plant, the context its filter was called with
  lastCall,     \* history: plant, control and state before the last dynamics call
  calls,        \* history: per plant, the number of dynamics calls that returned
  run,          \* 1 in the first run of the program, 2 in the second
  memo,         \* per filter, the (context, result) pairs it has answered so far
  prev,         \* history: the logs the first run ended with
  callLog,      \* history: per plant, the state before and at the return of each dynamics call
  env,          \* the files main reads: the dataset and the checkpoint
  data,         \* local of main: the unpickled dataset
  model         \* local of main: the CbfQpNet

vars == <<tensor, plant, pc, i, x, v, xn, vn, u_nom, u_filtered, un_filtered,
          collections, printed, rec, ctlLog, outLog, ctxLog, lastCall, calls,
          run, memo, prev, callLog, env, data, model>>

\* What main sets up before it constructs the plants.
startupVars == <<env, data, model>>

\* ------------------------------------------------------------------ bounds
\* Number of loop iterations explored (the program runs range(150)).
NumSteps == 3

\* Number of dynamics calls explored on plants driven directly.
MaxCalls == 3

\* ------------------------------------------------------------- constants
Scale == 10000
X0 == 8000
V0 == 3000
DT == 100

Plants == {"system", "system_n"}

\* Fixed-point product of two reals.
FMul(a, b) == (a * b) \div Scale

\* A control is None (no tensor), an empty tensor, or a tensor holding a value.
None == [kind |-> "none", val |-> 0]
Empty == [kind |-> "empty", val |-> 0]
Val(n) == [kind |-> "val", val |-> n]

Min(a, b) == IF a <= b THEN a ELSE b

\* 1.5 * cos(i / 3)
NomTable(k) ==
  CASE k = 0 -> 15000
    [] k = 1 -> 14174
    [] k = 2 -> 11788
    [] k = 3 -> 8105
    [] k = 4 -> 3529
    [] k = 5 -> -1436
    [] k = 6 -> -6242
    [] OTHER -> -10361

\* The nominal control sampled from a generator seeded differently in every
\* run (the Uniform(-1, 1).sample of main that is commented out).
UNom_Sampled(k) == NomTable(k + run)

\* A nominal control fed back from the velocity of the optimisation plant.
UNom_Feedback(k) == NomTable(k) - tensor["v0"]

\* The nominal control of iteration k.
UNom(k) == NomTable(k)

\* ---------------------------------------------------------------- plant
\* DoubleIntegrator.__init__: the object keeps the tensors it is given.
NewPlant(x0, v0, dt) == [_x |-> x0, _v |-> v0, _dt |-> dt, _t |-> 0]

\* Properties x, v, t of a plant, read through the heap.
Pos(p) == tensor[plant[p]._x]
Vel(p) == tensor[plant[p]._v]
Time(p) == plant[p]._t

\* self._v += u * self.dt : in place on the tensor self._v refers to.
AddControl(heap, self, u) ==
  IF u.kind = "none" THEN heap
  ELSE [heap EXCEPT ![self._v] = @ + FMul(u.val, self._dt)]

\* self._x += self._v : the time step left out of the position update.
AddVelocity_NoDt(heap, self) ==
  [heap EXCEPT ![self._x] = @ + heap[self._v]]

\* self._x += self._v * self.dt : in place on the tensor self._x refers to.
AddVelocity(heap, self) ==
  [heap EXCEPT ![self._x] = @ + FMul(heap[self._v], self._dt)]

\* self._t = self.dt : an assignment in place of the increment.
AddTime_Assign(self) == [self EXCEPT !._t = self._dt]

\* self._t += self.dt
AddTime(self) == [self EXCEPT !._t = @ + self._dt]

\* An empty tensor cannot be broadcast into the (1,1,1) tensor self._v.
Raises(u) == u.kind = "empty"

\* Explicit Euler: the position update runs before the velocity update.
StepHeap_Explicit(heap, self, u) == AddControl(AddVelocity(heap, self), self, u)

\* The body of dynamics on the heap: the velocity update comes first, so the
\* position update reads the new velocity.
StepHeap(heap, self, u) == AddVelocity(AddControl(heap, self, u), self)

\* One call p.dynamics(u) by main; main goes on at `next` when it returns.
Dynamics(p, u, next) ==
  /\ ctlLog' = [ctlLog EXCEPT ![p] = Append(@, u)]
  /\ IF Raises(u)
     THEN /\ pc' = "raised"
          /\ UNCHANGED <<tensor, plant, lastCall, calls, callLog>>
     ELSE /\ tensor' = StepHeap(tensor, plant[p], u)
          /\ plant' = [plant EXCEPT ![p] = AddTime(@)]
          /\ pc' = next
          /\ lastCall' = [plant |-> p, u |-> u, pos |-> Pos(p), vel |-> Vel(p)]
          /\ calls' = [calls EXCEPT ![p] = @ + 1]
          /\ callLog' = [callLog EXCEPT ![p] =
                           Append(@, [pre |-> <<Pos(p), Vel(p)>>,
                                      ret |-> <<tensor'[plant[p]._x],
                                                tensor'[plant[p]._v]>>])]

\* ---------------------------------------------------------------- filters
\* The context built from the position and velocity read before the advance.
Context_BeforeAdvance(nom, px, pv) == <<nom, lastCall.pos, lastCall.vel>>

\* The context built in the order (nominal, velocity, position).
Context_Swapped(nom, px, pv) == <<nom, tensor[pv], tensor[px]>>

\* Context of a filter call, in the order (nominal, position, velocity).
Context(nom, px, pv) == <<nom, tensor[px], tensor[pv]>>

\* Largest control the barrier constraint admits at (position, velocity).
CbfBound(pos, vel) == 10 * (Scale - pos) - 2 * vel

\* The safety constraint on a control u in a context.
Safe(u, ctx) == u <= CbfBound(ctx[2], ctx[3])

\* CbfQpProblem: the feasible point closest to the nominal, or an empty result.
SolverOutputs(ctx) == {Val(Min(ctx[1], CbfBound(ctx[2], ctx[3]))), Empty}

\* CbfQpNet: some point of the feasible set, or an empty result.
ModelOutputs(ctx) ==
  {Val(Min(ctx[1], CbfBound(ctx[2], ctx[3]))),
   Val(CbfBound(ctx[2], ctx[3]) - Scale),
   Empty}

\* A filter is a function of its context: a context it has answered before
\* gets the same answer, a new one any of the candidates.
Returns(p, ctx, candidates) ==
  IF \E m \in memo[p] : m[1] = ctx
  THEN {m[2] : m \in {mm \in memo[p] : mm[1] = ctx}}
  ELSE candidates

\* ------------------------------------------------------------------ main
\* The program state when main reaches its loop: x0 and v0 allocated, both
\* plants constructed from them, no control computed yet.
StartState ==
  [tensor |-> [id \in {"x0", "v0"} |-> IF id = "x0" THEN X0 ELSE V0],
   plant |-> [p \in Plants |-> NewPlant("x0", "v0", DT)],
   pc |-> IF NumSteps > 0 THEN "dyn_sys" ELSE "done",
   u_filtered |-> None,
   un_filtered |-> None,
   lastCall |-> [plant |-> "none", u |-> None, pos |-> 0, vel |-> 0],
   logs |-> [p \in Plants |-> <<>>],
   calls |-> [p \in Plants |-> 0]]

\* Width of input_n: u_nom, xn and vn concatenated along dimension 1.
InputWidth == 3

\* The files as the program expects them: a dataset and a checkpoint of a
\* network with InputWidth inputs.
GoodEnv == [data |-> "ok", x_dim |-> InputWidth, ckpt |-> "ok", ckpt_dim |-> InputWidth]

\* CbfQpNet.__init__: the first layer is as wide as the dataset's x_dim.
NewModel(d) == [in_dim |-> d.x_dim, loaded |-> FALSE]

\* model(input_n): the first nn.Linear cannot multiply an input of another
\* width than its own.
ForwardRaises(m) == m.in_dim # InputWidth

Start ==
  /\ tensor = StartState.tensor
  /\ plant = StartState.plant
  /\ pc = StartState.pc
  /\ i = 0
  /\ x = "unbound" /\ v = "unbound" /\ xn = "unbound" /\ vn = "unbound"
  /\ u_nom = 0
  /\ u_filtered = StartState.u_filtered
  /\ un_filtered = StartState.un_filtered
  /\ collections = <<>>
  /\ printed = {}
  /\ rec = StartState.logs
  /\ ctlLog = StartState.logs
  /\ outLog = StartState.logs
  /\ ctxLog = StartState.logs
  /\ lastCall = StartState.lastCall
  /\ calls = StartState.calls
  /\ callLog = StartState.logs

Init ==
  /\ Start
  /\ env = GoodEnv
  /\ data = [x_dim |-> env.x_dim]
  /\ model = [NewModel(data) EXCEPT !.loaded = TRUE]
  /\ run = 1
  /\ memo = [p \in Plants |-> {}]
  /\ prev = [pc |-> "none", rec |-> rec, outLog |-> outLog, ctxLog |-> ctxLog]

\* Each plant driven by the other plant's filter.
ControlFor_Swapped(p) == IF p = "system" THEN un_filtered ELSE u_filtered

\* The control main passes to a plant: the last result of that plant's filter.
ControlFor(p) == IF p = "system" THEN u_filtered ELSE un_filtered

\* x, v = system.dynamics(u_filtered)
DynSystem ==
  /\ pc = "dyn_sys"
  /\ Dynamics("system", ControlFor("system"), "dyn_sysn")
  /\ IF Raises(ControlFor("system"))
     THEN UNCHANGED <<x, v, xn, vn>>
     ELSE /\ x' = plant["system"]._x
          /\ v' = plant["system"]._v
          /\ UNCHANGED <<xn, vn>>
  /\ UNCHANGED <<i, u_nom, u_filtered, un_filtered, collections, printed,
                 rec, outLog, ctxLog, run, memo, prev>>
  /\ UNCHANGED startupVars

\* xn, vn = system_n.dynamics(un_filtered)
DynSystemN ==
  /\ pc = "dyn_sysn"
  /\ Dynamics("system_n", ControlFor("system_n"), "nominal")
  /\ IF Raises(ControlFor("system_n"))
     THEN UNCHANGED <<x, v, xn, vn>>
     ELSE /\ xn' = plant["system_n"]._x
          /\ vn' = plant["system_n"]._v
          /\ UNCHANGED <<x, v>>
  /\ UNCHANGED <<i, u_nom, u_filtered, un_filtered, collections, printed,
                 rec, outLog, ctxLog, run, memo, prev>>
  /\ UNCHANGED startupVars

\* u_nom = 1.5 * torch.tensor([[[np.cos(i / 3)]]])
Nominal ==
  /\ pc = "nominal"
  /\ u_nom' = UNom(i)
  /\ pc' = "nn_infer"
  /\ UNCHANGED <<tensor, plant, i, x, v, xn, vn, u_filtered, un_filtered,
                 collections, printed, rec, ctlLog, outLog, ctxLog, lastCall,
                 calls, run, memo, prev, callLog>>
  /\ UNCHANGED startupVars

\* un_filtered = nn_infer(model, xn, vn, u_nom)
NnInfer ==
  /\ pc = "nn_infer"
  /\ ctxLog' = [ctxLog EXCEPT !["system_n"] = Append(@, Context(u_nom, xn, vn))]
  /\ IF ForwardRaises(model)
     THEN /\ pc' = "raised"
          /\ UNCHANGED <<un_filtered, memo, printed, outLog>>
     ELSE /\ \E out \in Returns("system_n", Context(u_nom, xn, vn),
                                 ModelOutputs(Context(u_nom, xn, vn))) :
               /\ un_filtered' = out
               /\ memo' = [memo EXCEPT !["system_n"] =
                             @ \cup {<<Context(u_nom, xn, vn), out>>}]
               /\ printed' = IF out.kind = "empty"
                             THEN printed \cup {<<i, "NN failed">>} ELSE printed
               /\ outLog' = [outLog EXCEPT !["system_n"] = Append(@, out)]
          /\ pc' = "opt_solve"
  /\ UNCHANGED <<tensor, plant, i, x, v, xn, vn, u_nom, u_filtered,
                 collections, rec, ctlLog, lastCall, calls, run, prev, callLog>>
  /\ UNCHANGED startupVars

\* u_filtered = opt_solve(x, v, u_nom)
OptSolve ==
  /\ pc = "opt_solve"
  /\ \E out \in Returns("system", Context(u_nom, x, v),
                         SolverOutputs(Context(u_nom, x, v))) :
       /\ u_filtered' = out
       /\ memo' = [memo EXCEPT !["system"] = @ \cup {<<Context(u_nom, x, v), out>>}]
       /\ printed' = IF out.kind = "empty"
                     THEN printed \cup {<<i, "Solver failed">>} ELSE printed
       /\ outLog' = [outLog EXCEPT !["system"] = Append(@, out)]
  /\ ctxLog' = [ctxLog EXCEPT !["system"] = Append(@, Context(u_nom, x, v))]
  /\ pc' = "draw"
  /\ UNCHANGED <<tensor, plant, i, x, v, xn, vn, u_nom, un_filtered,
                 collections, rec, ctlLog, lastCall, calls, run, prev, callLog>>
  /\ UNCHANGED startupVars

\* seq without its k-th element (0-based, as ax.collections[k].remove()).
RemoveAt(seq, k) ==
  [j \in 1..(Len(seq) - 1) |-> IF j <= k THEN seq[j] ELSE seq[j + 1]]

\* Only the optimisation plant is drawn.
Scatter_OnlySystem(r, px, pv, pxn, pvn) ==
  [r EXCEPT !["system"] = Append(@, <<tensor[px], tensor[pv]>>)]

\* The two ax.scatter calls of one iteration.
Scatter(r, px, pv, pxn, pvn) ==
  [r EXCEPT !["system"] = Append(@, <<tensor[px], tensor[pv]>>),
            !["system_n"] = Append(@, <<tensor[pxn], tensor[pvn]>>)]

\* ax.scatter(x, v); ax.scatter(xn, vn); plt.draw(); the removals; next i.
Draw ==
  /\ pc = "draw"
  /\ rec' = Scatter(rec, x, v, xn, vn)
  /\ LET added == collections \o <<<<"system", i>>, <<"system_n", i>>>>
     IN collections' = IF i > 0 THEN RemoveAt(RemoveAt(added, 0), 1) ELSE added
  /\ i' = i + 1
  /\ pc' = IF i + 1 < NumSteps THEN "dyn_sys" ELSE "done"
  /\ UNCHANGED <<tensor, plant, x, v, xn, vn, u_nom, u_filtered, un_filtered,
                 printed, ctlLog, outLog, ctxLog, lastCall, calls, run, memo,
                 prev, callLog>>
  /\ UNCHANGED startupVars

Next == DynSystem \/ DynSystemN \/ Nominal \/ NnInfer \/ OptSolve \/ Draw

Spec == Init /\ [][Next]_vars

\* The program is started a second time once the first run has ended, with
\* the same filters.
Restart ==
  /\ run = 1
  /\ pc \in {"done", "raised"}
  /\ run' = 2
  /\ prev' = [pc |-> pc, rec |-> rec, outLog |-> outLog, ctxLog |-> ctxLog]
  /\ tensor' = StartState.tensor
  /\ plant' = StartState.plant
  /\ pc' = StartState.pc
  /\ i' = 0
  /\ x' = "unbound" /\ v' = "unbound" /\ xn' = "unbound" /\ vn' = "unbound"
  /\ u_nom' = 0
  /\ u_filtered' = StartState.u_filtered
  /\ un_filtered' = StartState.un_filtered
  /\ collections' = <<>>
  /\ printed' = {}
  /\ rec' = StartState.logs
  /\ ctlLog' = StartState.logs
  /\ outLog' = StartState.logs
  /\ ctxLog' = StartState.logs
  /\ lastCall' = StartState.lastCall
  /\ calls' = StartState.calls
  /\ callLog' = StartState.logs
  /\ UNCHANGED memo
  /\ UNCHANGED startupVars

NextTwoRuns == Next \/ Restart

SpecTwoRuns == Init /\ [][NextTwoRuns]_vars


\* ------------------------------------------------------- main from its start
\* The dataset files and checkpoints main may find.
Envs ==
  [data : {"ok", "missing"}, x_dim : {InputWidth, InputWidth - 1},
   ckpt : {"ok", "missing"}, ckpt_dim : {InputWidth, InputWidth - 1}]

\* A plant variable of main before line 103 has bound it.
NoPlant == [_x |-> "unbound", _v |-> "unbound", _dt |-> 0, _t |-> 0]

\* The variables data and model of main before they are bound.
NoData == [x_dim |-> 0]
NoModel == [in_dim |-> 0, loaded |-> FALSE]

\* main is entered: nothing is loaded, no tensor and no plant exists.
InitStartup ==
  /\ env \in Envs
  /\ data = NoData
  /\ model = NoModel
  /\ tensor = [id \in {} |-> 0]
  /\ plant = [p \in Plants |-> NoPlant]
  /\ pc = "load_data"
  /\ i = 0
  /\ x = "unbound" /\ v = "unbound" /\ xn = "unbound" /\ vn = "unbound"
  /\ u_nom = 0
  /\ u_filtered = None
  /\ un_filtered = None
  /\ collections = <<>>
  /\ printed = {}
  /\ rec = StartState.logs
  /\ ctlLog = StartState.logs
  /\ outLog = StartState.logs
  /\ ctxLog = StartState.logs
  /\ lastCall = StartState.lastCall
  /\ calls = StartState.calls
  /\ callLog = StartState.logs
  /\ run = 1
  /\ memo = [p \in Plants |-> {}]
  /\ prev = [pc |-> "none", rec |-> rec, outLog |-> outLog, ctxLog |-> ctxLog]

loopVars == <<tensor, plant, i, x, v, xn, vn, u_nom, u_filtered, un_filtered,
              collections, printed, rec, ctlLog, outLog, ctxLog, lastCall,
              calls, run, memo, prev, callLog>>

\* open(filepath, "rb") and pickle.load raise when the file cannot be read.
DataFails(e) == e.data # "ok"

\* The checkpoint load that never raises (a failure caught and passed over).
CkptFails_Ignored(e, m) == FALSE

\* torch.load raises when the checkpoint cannot be read, load_state_dict
\* when its first layer has another shape than the model's.
CkptFails(e, m) == e.ckpt # "ok" \/ e.ckpt_dim # m.in_dim

\* with open(filepath, "rb") as f: data = pickle.load(f)
LoadData ==
  /\ pc = "load_data"
  /\ IF DataFails(env)
     THEN pc' = "raised" /\ UNCHANGED data
     ELSE pc' = "build_model" /\ data' = [x_dim |-> env.x_dim]
  /\ UNCHANGED <<env, model>>
  /\ UNCHANGED loopVars

\* model = CbfQpNet(data, args)
BuildModel ==
  /\ pc = "build_model"
  /\ model' = NewModel(data)
  /\ pc' = "load_state"
  /\ UNCHANGED <<env, data>>
  /\ UNCHANGED loopVars

\* model.load_state_dict(torch.load(...)); model.eval()
LoadState ==
  /\ pc = "load_state"
  /\ IF CkptFails(env, model)
     THEN pc' = "raised" /\ UNCHANGED model
     ELSE pc' = "construct" /\ model' = [model EXCEPT !.loaded = TRUE]
  /\ UNCHANGED <<env, data>>
  /\ UNCHANGED loopVars

\* x0, v0, system, system_n, u_filtered, un_filtered of main.
Construct ==
  /\ pc = "construct"
  /\ tensor' = StartState.tensor
  /\ plant' = StartState.plant
  /\ u_filtered' = StartState.u_filtered
  /\ un_filtered' = StartState.un_filtered
  /\ pc' = StartState.pc
  /\ UNCHANGED <<i, x, v, xn, vn, u_nom, collections, printed, rec, ctlLog,
                 outLog, ctxLog, lastCall, calls, run, memo, prev, callLog>>
  /\ UNCHANGED startupVars

NextStartup == LoadData \/ BuildModel \/ LoadState \/ Construct \/ Next

SpecStartup == InitStartup /\ [][NextStartup]_vars

\* ------------------------------------------------- the plant class alone
\* Positions, velocities, time steps and controls the plants are tried with.
TestPositions == {X0, 0 - X0}
TestVelocities == {V0, 0, 0 - 2 * V0}
TestSteps == {DT, 5 * DT}
TestControls == {None, Empty, Val(15000), Val(0 - 7000)}

\* Two plants constructed as main constructs them, from any of the test
\* values.
InitPlant ==
  /\ tensor \in {[id \in {"x0", "v0"} |-> IF id = "x0" THEN px ELSE pv] :
                   px \in TestPositions, pv \in TestVelocities}
  /\ plant \in {[p \in Plants |-> NewPlant("x0", "v0", dt)] : dt \in TestSteps}
  /\ pc = "test"
  /\ i = 0
  /\ x = "unbound" /\ v = "unbound" /\ xn = "unbound" /\ vn = "unbound"
  /\ u_nom = 0
  /\ u_filtered = StartState.u_filtered
  /\ un_filtered = StartState.un_filtered
  /\ collections = <<>>
  /\ printed = {}
  /\ rec = StartState.logs
  /\ ctlLog = StartState.logs
  /\ outLog = StartState.logs
  /\ ctxLog = StartState.logs
  /\ lastCall = StartState.lastCall
  /\ calls = StartState.calls
  /\ callLog = StartState.logs
  /\ env = GoodEnv
  /\ data = [x_dim |-> env.x_dim]
  /\ model = [NewModel(data) EXCEPT !.loaded = TRUE]
  /\ run = 1
  /\ memo = [p \in Plants |-> {}]
  /\ prev = [pc |-> "none", rec |-> rec, outLog |-> outLog, ctxLog |-> ctxLog]

\* p.dynamics(u) for any plant p and any control u.
CallDynamics ==
  /\ pc = "test"
  /\ calls["system"] + calls["system_n"] < MaxCalls
  /\ \E p \in Plants, u \in TestControls : Dynamics(p, u, "test")
  /\ UNCHANGED <<i, x, v, xn, vn, u_nom, u_filtered, un_filtered, collections,
                 printed, rec, outLog, ctxLog, run, memo, prev>>
  /\ UNCHANGED startupVars

SpecPlant == InitPlant /\ [][CallDynamics]_vars

\* ================================================================ claims
Other(p) == IF p = "system" THEN "system_n" ELSE "system"

\* True when some result of p's filter was an empty tensor.
Failed(p) == \E k \in 1..Len(outLog[p]) : outLog[p][k].kind = "empty"

\* C1: a dynamics call that returns on one plant leaves the position and the
\* velocity of the other plant unchanged.
C1_NoSharedState ==
  [][\A p \in Plants :
       calls'[p] = calls[p] + 1 =>
         /\ Pos(Other(p))' = Pos(Other(p))
         /\ Vel(Other(p))' = Vel(Other(p))]_vars

\* C2: the first control passed to a plant's dynamics is None, the k-th one
\* (k > 1) is the result its own filter returned in the iteration before, and
\* a filter result exists only after the dynamics call of its iteration.
C2_ControlLag ==
  \A p \in Plants :
    /\ Len(outLog[p]) <= Len(ctlLog[p])
    /\ \A k \in 1..Len(ctlLog[p]) :
         ctlLog[p][k] = IF k = 1 THEN None ELSE outLog[p][k - 1]

C2_Witness ==
  \A p \in Plants : Len(ctlLog[p]) = 3 /\ ctlLog[p][3].kind = "val"

\* C3: after dynamics(u) with a control u holding a value, the velocity is
\* v + u*dt and the position is p + (v + u*dt)*dt, for the p and v before.
C3_SemiImplicitEuler ==
  lastCall.u.kind = "val" =>
    LET p == lastCall.plant
        dt == plant[p]._dt
        vnew == lastCall.vel + FMul(lastCall.u.val, dt)
    IN /\ Vel(p) = vnew
       /\ Pos(p) = lastCall.pos + FMul(vnew, dt)

C3_Witness ==
  /\ lastCall.u.kind = "val"
  /\ lastCall.u.val # 0
  /\ Vel(lastCall.plant) # lastCall.vel
  /\ Pos(lastCall.plant) # lastCall.pos

\* C4: after dynamics(None) the velocity is the one before and the position
\* is p + v*dt.
C4_AbsentControl ==
  (lastCall.plant # "none" /\ lastCall.u.kind = "none") =>
    LET p == lastCall.plant
    IN /\ Vel(p) = lastCall.vel
       /\ Pos(p) = lastCall.pos + FMul(lastCall.vel, plant[p]._dt)

C4_Witness ==
  /\ lastCall.plant = "system_n"
  /\ lastCall.u.kind = "none"
  /\ Pos("system_n") # lastCall.pos

\* C5: once opt_solve has returned an empty result, main raises nothing and
\* the failure has been printed.
C5_OptFailSoft ==
  Failed("system") =>
    /\ pc # "raised"
    /\ \E k \in 0..i : <<k, "Solver failed">> \in printed

\* C6: once nn_infer has returned an empty result, main raises nothing and
\* the failure has been printed.
C6_NnFailSoft ==
  Failed("system_n") =>
    /\ pc # "raised"
    /\ \E k \in 0..i : <<k, "NN failed">> \in printed

\* C7: a filter result that holds a value satisfies the safety constraint at
\* the nominal control of its iteration and at the position and velocity its
\* own plant has in that iteration.
C7_Feasible ==
  /\ (pc \in {"opt_solve", "draw", "dyn_sys", "done"} /\ un_filtered.kind = "val")
       => Safe(un_filtered.val, <<u_nom, Pos("system_n"), Vel("system_n")>>)
  /\ (pc \in {"draw", "dyn_sys", "done"} /\ u_filtered.kind = "val")
       => Safe(u_filtered.val, <<u_nom, Pos("system"), Vel("system")>>)

C7_Witness ==
  /\ pc = "draw"
  /\ i = 1
  /\ u_filtered.kind = "val"
  /\ un_filtered.kind = "val"

\* C8: after k iterations each plant has had k (position, velocity) pairs
\* drawn, and NumSteps of them when main is done.
C8_OneRecordPerStep ==
  /\ \A p \in Plants : Len(rec[p]) = i
  /\ pc = "done" => \A p \in Plants : Len(rec[p]) = NumSteps

C8_Witness ==
  pc = "done" /\ \A p \in Plants : Len(rec[p]) = NumSteps

\* C9: the elapsed time of a plant is its time step times the number of
\* dynamics calls that returned on it, with a control or without.
C9_ElapsedTime ==
  /\ \A p \in Plants : Time(p) = calls[p] * plant[p]._dt
  /\ pc = "done" => \A p \in Plants : Time(p) = NumSteps * DT

C9_Witness ==
  /\ pc = "done"
  /\ \A p \in Plants : calls[p] = NumSteps /\ Time(p) = NumSteps * DT

IsPrefix(a, b) == Len(a) <= Len(b) /\ \A k \in 1..Len(a) : a[k] = b[k]

\* C10: the second run repeats the first: every (position, velocity) pair it
\* draws, every context it builds and every filter result it gets is the one
\* the first run had at the same step, and it ends where the first run ended.
C10_Determinism ==
  run = 2 =>
    /\ \A p \in Plants :
         /\ IsPrefix(rec[p], prev.rec[p])
         /\ IsPrefix(outLog[p], prev.outLog[p])
         /\ IsPrefix(ctxLog[p], prev.ctxLog[p])
    /\ pc \in {"done", "raised"} =>
         /\ pc = prev.pc
         /\ \A p \in Plants :
              /\ rec[p] = prev.rec[p]
              /\ outLog[p] = prev.outLog[p]
              /\ ctxLog[p] = prev.ctxLog[p]

C10_Witness ==
  /\ run = 2
  /\ pc = "done"
  /\ \A p \in Plants : Len(rec[p]) = NumSteps /\ rec[p] = prev.rec[p]

\* C11: main ends only in its terminated state, after NumSteps iterations
\* and NumSteps dynamics calls on each plant, and never runs another one.
C11_RunsToCompletion ==
  /\ i <= NumSteps
  /\ \A p \in Plants : calls[p] <= NumSteps
  /\ pc \in {"done", "raised"} =>
       /\ pc = "done"
       /\ i = NumSteps
       /\ \A p \in Plants : calls[p] = NumSteps

\* True when main has called dynamics or a filter.
Stepped ==
  \E p \in Plants : Len(ctlLog[p]) > 0 \/ Len(ctxLog[p]) > 0

\* C12: when the dataset's input width is not the width the network is used
\* with, dynamics is never called on either plant.
C12_MismatchFatalAtStartup ==
  env.x_dim # InputWidth => \A p \in Plants : Len(ctlLog[p]) = 0

\* C13: when the dataset or the checkpoint cannot be loaded, no plant is
\* constructed or advanced and no filter is called, and the loop is entered
\* only with the dataset loaded and the checkpoint loaded into the model.
C13_LoadFailureFatal ==
  /\ (env.data # "ok" \/ env.ckpt # "ok") =>
       /\ \A p \in Plants : plant[p] = NoPlant
       /\ DOMAIN tensor = {}
       /\ ~Stepped
       /\ pc \in {"load_data", "build_model", "load_state", "raised"}
  /\ pc \in {"dyn_sys", "dyn_sysn", "nominal", "nn_infer", "opt_solve", "draw",
              "done"} =>
       data # NoData /\ model # NoModel /\ model.loaded

C13_Witness ==
  /\ env.data = "ok"
  /\ env.ckpt = "missing"
  /\ env.x_dim = env.ckpt_dim
  /\ model # NoModel
  /\ pc = "raised"

\* C14: the state a plant's k-th dynamics call returns (k > 1) is one Euler
\* step, driven by its own filter's previous result, from the state the plant
\* had after iteration k-1.
C14_OwnReferenceRollout ==
  \A p \in Plants : \A k \in 2..Len(callLog[p]) :
    LET before == rec[p][k - 1]
        vnew == before[2] + FMul(outLog[p][k - 1].val, plant[p]._dt)
    IN callLog[p][k].ret = <<before[1] + FMul(vnew, plant[p]._dt), vnew>>

\* C15 as claimed: a plant's filter is invoked before its advance of the same
\* iteration, with the position and velocity the plant had before that advance.
C15_FilterBeforeAdvance ==
  \A p \in Plants :
    /\ Len(ctlLog[p]) <= Len(ctxLog[p])
    /\ \A k \in 1..Len(ctxLog[p]) :
         k <= Len(callLog[p]) =>
           <<ctxLog[p][k][2], ctxLog[p][k][3]>> = callLog[p][k].pre

\* C15 as amended: when a filter is invoked both plants have been advanced in
\* this iteration, and its context is the nominal control with the position
\* and velocity its plant has at that moment.
C15_AdvanceBeforeFilter ==
  [][\A p \in Plants :
       Len(ctxLog'[p]) = Len(ctxLog[p]) + 1 =>
         /\ \A q \in Plants : Len(ctlLog[q]) = i + 1 /\ calls[q] = i + 1
         /\ ctxLog'[p][Len(ctxLog'[p])] = <<u_nom, Pos(p), Vel(p)>>]_vars

C15_Witness ==
  /\ pc = "draw"
  /\ i = 1
  /\ \A p \in Plants :
       /\ Len(ctxLog[p]) = 2
       /\ ctxLog[p][2][2] # callLog[p][2].pre[1]
       /\ ctxLog[p][2][3] # callLog[p][2].pre[2]

\* C16: the context of a filter call is the nominal control of the iteration
\* with the position and velocity its plant's dynamics call returned in that
\* iteration.
C16_ContextIsReturnedState ==
  \A p \in Plants : \A k \in 1..Len(ctxLog[p]) :
    /\ k <= Len(callLog[p])
    /\ ctxLog[p][k] = <<ctxLog[p][k][1], callLog[p][k].ret[1], callLog[p][k].ret[2]>>

\* C17: in every iteration both filters get the same nominal control, the
\* value 1.5*cos(k/3) of the iteration index k.
C17_SharedNominal ==
  /\ \A p \in Plants : \A k \in 1..Len(ctxLog[p]) :
       ctxLog[p][k][1] = NomTable(k - 1)
  /\ \A k \in 1..Len(ctxLog["system"]) :
       ctxLog["system"][k][1] = ctxLog["system_n"][k][1]

C17_Witness ==
  /\ pc = "draw"
  /\ i = 2
  /\ outLog["system"][2] # outLog["system_n"][2]
  /\ ctxLog["system"][3][1] = ctxLog["system_n"][3][1]

\* C18: the time step of a plant is positive and no dynamics call changes it,
\* and a dynamics call on one plant changes nothing of the other plant.
C18_FrameOfDynamics ==
  [][\A p \in Plants :
       calls'[p] = calls[p] + 1 =>
         /\ \A q \in Plants : plant[q]._dt > 0 /\ plant'[q]._dt = plant[q]._dt
         /\ plant'[Other(p)] = plant[Other(p)]
         /\ <<Pos(Other(p)), Vel(Other(p)), Time(Other(p))>>' =
              <<Pos(Other(p)), Vel(Other(p)), Time(Other(p))>>]_vars

TypeOK ==
  /\ pc \in {"dyn_sys", "dyn_sysn", "nominal", "nn_infer", "opt_solve",
             "draw", "done", "raised", "test", "load_data", "build_model",
             "load_state", "construct"}
  /\ i \in 0..NumSteps
  /\ \A p \in Plants : plant[p] = NoPlant \/ (plant[p]._x = "x0" /\ plant[p]._v = "v0")

====
